---- MODULE Spec2Model ----
(***************************************************************************)
(* Model of the recipe REST API (app/recipe/views.py): the tag and         *)
(* ingredient viewsets (BaseViewSet: list, create) and the recipe viewset  *)
(* (ModelViewSet: list, create, retrieve, update, partial_update, destroy, *)
(* upload_image) over the three tables and the two many-to-many relations. *)
(* A step of the model is one HTTP request handled to completion: the      *)
(* request, the tables after it and the response it produced.              *)
(*                                                                         *)
(* A queryset is a sequence of row ids: a join repeats the id of a row     *)
(* once per joined row, DISTINCT removes the repeats, and a queryset with  *)
(* no ORDER BY may come back from the database in any order.               *)
(***************************************************************************)
EXTENDS Naturals, Sequences, FiniteSets, TLC

VARIABLES tags, ingredients, recipes, request, response

vars == <<tags, ingredients, recipes, request, response>>
db == <<tags, ingredients, recipes>>

\* ---------------------------------------------------------------- bounds
\* At most MaxObjects rows are ever created (tags + ingredients + recipes).
MaxObjects == 3

\* ---------------------------------------------------------------- values
Users == {"u1", "u2"}
\* A request that carries no valid token.
Anonymous == "anonymous"
\* Names of tags and ingredients, as their rank in the collation order;
\* 0 stands for the empty string.
Names == {1, 2}
BlankName == 0
\* The valid titles. The views never read the scalar fields of a recipe
\* (title, time_minutes, price): one valid value stands for them.
Titles == {"Borsch"}
BlankTitle == ""
NoImage == "none"
\* Upload payloads: a decodable image and the string 'notimage'.
ValidImage == "recipe.jpg"
NotImage == "notimage"

HTTP_200_OK == 200
HTTP_400_BAD_REQUEST == 400
HTTP_401_UNAUTHORIZED == 401
HTTP_201_CREATED == 201

\* A deleted row of the recipe table (ids are never reused).
Deleted == [alive |-> FALSE, user |-> "nobody", title |-> BlankTitle,
            tags |-> {}, ingredients |-> {}, image |-> NoImage]

NoRequest == [view |-> "none", action |-> "none", user |-> Anonymous, pk |-> 0,
              assigned_only |-> 0, tags |-> <<>>, ingredients |-> <<>>,
              payload_user |-> "nobody", image |-> NoImage]
NoResponse == [status |-> 0, data |-> <<>>]

\* ------------------------------------------------------------- sequences
Range(s) == {s[i] : i \in 1..Len(s)}

RECURSIVE Repeat(_, _)
Repeat(x, n) == IF n = 0 THEN <<>> ELSE <<x>> \o Repeat(x, n - 1)

\* Each row of rows repeated mult[row] times: the rows of an inner join.
RECURSIVE Expand(_, _)
Expand(rows, mult) ==
    IF rows = <<>> THEN <<>>
    ELSE Repeat(Head(rows), mult[Head(rows)]) \o Expand(Tail(rows), mult)

\* The orders in which the database may return an unordered result.
Orderings(rows) ==
    {[i \in 1..Len(rows) |-> rows[p[i]]] : p \in Permutations(1..Len(rows))}

AliveRecipes == {r \in 1..Len(recipes) : recipes[r].alive}
Created == Len(tags) + Len(ingredients) + Len(recipes)

\* ------------------------------------------------- authentication
\* permission_classes = (IsAuthenticated,) with TokenAuthentication.
AllowAny(user) == TRUE
IsAuthenticated(user) == user \in Users

Unauthorized == [status |-> HTTP_401_UNAUTHORIZED, data |-> <<>>]
NotFound == [status |-> 404, data |-> <<>>]
BadRequest == [status |-> HTTP_400_BAD_REQUEST, data |-> <<>>]

\* The query string's assigned_only values ('0' and '1'; absent reads as 0).
AssignedOnlyValues == {0, 1}

\* ------------------------------------------------- BaseViewSet querysets
\* Model.objects.all(): every row of the table, by id.
all(table) == [i \in 1..Len(table) |-> i]

\* queryset.filter(recipe__isnull=False): the inner join of the table with
\* the recipe relation named field, one row per (row, recipe) link.
filter_recipe_isnull_false(rows, field) ==
    Expand(rows, [t \in Range(rows) |->
                    Cardinality({r \in AliveRecipes : t \in recipes[r][field]})])

\* queryset.filter(user=self.request.user)
filter_user_unscoped(rows, table, user) == rows
filter_user(rows, table, user) ==
    SelectSeq(rows, LAMBDA i : table[i].user = user)

\* queryset.distinct(): the first occurrence of every row.
RECURSIVE Dedupe(_, _)
Dedupe(rows, seen) ==
    IF rows = <<>> THEN <<>>
    ELSE IF Head(rows) \in seen THEN Dedupe(Tail(rows), seen)
    ELSE <<Head(rows)>> \o Dedupe(Tail(rows), seen \cup {Head(rows)})

distinct_omitted(rows) == rows
distinct(rows) == Dedupe(rows, {})

\* queryset.order_by('-name'): the results the database may return, rows
\* of equal name in either order.
order_by_omitted(rows, table) == Orderings(rows)
order_by_name_desc(rows, table) ==
    {s \in Orderings(rows) :
        \A i, j \in 1..Len(s) : i < j => table[s[i]].name >= table[s[j]].name}

\* BaseViewSet.get_queryset: the set of results the query may return.
BaseGetQueryset(table, field, user, assigned_only) ==
    LET queryset == IF assigned_only # 0
                    THEN filter_recipe_isnull_false(all(table), field)
                    ELSE all(table)
    IN order_by_name_desc(distinct(filter_user(queryset, table, user)), table)

\* TagSerializer / IngredientSerializer: id and name.
RefSerializer(table, id) == [id |-> id, name |-> table[id].name]
\* The name must not be blank.
RefIsValid(data) == data.name # BlankName

\* BaseViewSet.perform_create: serializer.save(user=self.request.user)
perform_create_payload_user(data, user) == [user |-> data.user, name |-> data.name]
perform_create(data, user) == [user |-> user, name |-> data.name]

\* The request variable holds what the handler read of the request: the
\* endpoint and the authenticated user always; the pk of a detail URL once
\* authentication passed; the query parameters of a list; the user a body
\* payload names and the uploaded file once the body was parsed.
Req(view, act, u) ==
    [view |-> view, action |-> act, user |-> u, pk |-> 0,
     assigned_only |-> 0, tags |-> <<>>, ingredients |-> <<>>,
     payload_user |-> "nobody", image |-> NoImage]
ListRequest(view, u, a, ts, is) ==
    IF ~IsAuthenticated(u) THEN Req(view, "list", u)
    ELSE [Req(view, "list", u) EXCEPT
            !.assigned_only = a, !.tags = ts, !.ingredients = is]
CreateRequest(view, u, pu) ==
    IF ~IsAuthenticated(u) THEN Req(view, "create", u)
    ELSE [Req(view, "create", u) EXCEPT !.payload_user = pu]
DetailRequest(act, u, pk) ==
    IF ~IsAuthenticated(u) THEN Req("recipes", act, u)
    ELSE [Req("recipes", act, u) EXCEPT !.pk = pk]

\* ListModelMixin.list of a BaseViewSet.
BaseListResponse(table, field, u, a) ==
    IF ~IsAuthenticated(u) THEN {Unauthorized}
    ELSE {[status |-> HTTP_200_OK,
           data |-> [i \in 1..Len(rows) |-> RefSerializer(table, rows[i])]] :
          rows \in BaseGetQueryset(table, field, u, a)}

\* CreateModelMixin.create of a BaseViewSet: the table after the request.
BaseCreateTable(table, u, data) ==
    IF IsAuthenticated(u) /\ RefIsValid(data)
    THEN Append(table, perform_create(data, u))
    ELSE table
BaseCreateResponse(table, u, data) ==
    IF ~IsAuthenticated(u) THEN Unauthorized
    ELSE IF ~RefIsValid(data) THEN BadRequest
    ELSE [status |-> HTTP_201_CREATED,
          data |-> <<RefSerializer(BaseCreateTable(table, u, data),
                                   Len(table) + 1)>>]

\* Tag and ingredient payloads: a name, and a user field naming somebody
\* other than the sender as the owner.
RefPayloads(u) == [name : Names \cup {BlankName}, user : Users \ {u}]

\* GET /recipe/tags/
TagList ==
    \E u \in Users \cup {Anonymous}, a \in AssignedOnlyValues :
        /\ request' = ListRequest("tags", u, a, <<>>, <<>>)
        /\ response' \in BaseListResponse(tags, "tags", u, a)
        /\ UNCHANGED db

\* POST /recipe/tags/
TagCreate ==
    \E u \in Users \cup {Anonymous} : \E data \in RefPayloads(u) :
        /\ (IsAuthenticated(u) /\ RefIsValid(data)) => Created < MaxObjects
        /\ request' = CreateRequest("tags", u, data.user)
        /\ tags' = BaseCreateTable(tags, u, data)
        /\ response' = BaseCreateResponse(tags, u, data)
        /\ UNCHANGED <<ingredients, recipes>>

\* GET /recipe/ingredients/
IngredientList ==
    \E u \in Users \cup {Anonymous}, a \in AssignedOnlyValues :
        /\ request' = ListRequest("ingredients", u, a, <<>>, <<>>)
        /\ response' \in BaseListResponse(ingredients, "ingredients", u, a)
        /\ UNCHANGED db

\* POST /recipe/ingredients/
IngredientCreate ==
    \E u \in Users \cup {Anonymous} : \E data \in RefPayloads(u) :
        /\ (IsAuthenticated(u) /\ RefIsValid(data)) => Created < MaxObjects
        /\ request' = CreateRequest("ingredients", u, data.user)
        /\ ingredients' = BaseCreateTable(ingredients, u, data)
        /\ response' = BaseCreateResponse(ingredients, u, data)
        /\ UNCHANGED <<tags, recipes>>

\* ------------------------------------------------- RecipeViewSet querysets
\* The ids a query string may name, written as in the URL.
Digits == <<"1", "2", "3", "4", "5", "6">>
int(piece) == CHOOSE n \in 1..Len(Digits) : Digits[n] = piece

\* RecipeViewSet._params_to_ints: [int(i) for i in qs.split(',')], the
\* query string given as its comma-separated pieces.
_params_to_ints(qs) == [i \in 1..Len(qs) |-> int(qs[i])]

\* Recipe.objects.all(): every row still in the table, by id.
all_recipes == SelectSeq([i \in 1..Len(recipes) |-> i],
                         LAMBDA r : recipes[r].alive)

\* queryset.filter(tags__id__in=ids) / filter(ingredients__id__in=ids): the
\* inner join with the relation, one row per link whose id is in ids.
filter_id_in_all(rows, field, ids) ==
    SelectSeq(rows, LAMBDA r : Range(ids) \subseteq recipes[r][field])
filter_id_in(rows, field, ids) ==
    Expand(rows, [r \in Range(rows) |->
                    Cardinality(recipes[r][field] \cap Range(ids))])

\* queryset.filter(user=self.request.user) on the recipe table.
filter_recipe_user_unscoped(rows, user) == rows
filter_recipe_user(rows, user) ==
    SelectSeq(rows, LAMBDA r : recipes[r].user = user)

\* RecipeViewSet.get_queryset: the rows of the query, which has no ORDER BY.
RecipeGetQueryset(user, tagsParam, ingredientsParam) ==
    LET q0 == all_recipes
        q1 == IF tagsParam # <<>>
              THEN filter_id_in(q0, "tags", _params_to_ints(tagsParam))
              ELSE q0
        q2 == IF ingredientsParam # <<>>
              THEN filter_id_in(q1, "ingredients",
                                _params_to_ints(ingredientsParam))
              ELSE q1
    IN filter_recipe_user(q2, user)

\* GenericAPIView.get_object on get_queryset(): the rows with the given pk.
get_object(user, pk) ==
    SelectSeq(RecipeGetQueryset(user, <<>>, <<>>), LAMBDA r : r = pk)

\* RecipeSerializer: id, the scalar fields and the related ids.
RecipeSerializer(rec, id) ==
    [id |-> id, title |-> rec.title, tags |-> rec.tags,
     ingredients |-> rec.ingredients]
\* RecipeImageSerializer: id and image.
RecipeImageSerializer(rec, id) == [id |-> id, image |-> rec.image]

\* The fields a recipe payload may set through RecipeSerializer.
RecipeSerializerFieldsWithUser == {"title", "tags", "ingredients", "user"}
RecipeSerializerFields == {"title", "tags", "ingredients"}

\* RecipeSerializer.is_valid: a present title is not blank and every
\* related id names an existing row; a full (non-partial) payload needs a title.
RecipeIsValid(data, partial) ==
    /\ "title" \in data.present => data.title # BlankTitle
    /\ ~partial => "title" \in data.present
    /\ "tags" \in data.present => data.tags \subseteq 1..Len(tags)
    /\ "ingredients" \in data.present =>
           data.ingredients \subseteq 1..Len(ingredients)

\* The validated value of a field: the payload's when the serializer has the
\* field and the payload gives it, else the instance's (partial) or the
\* field's default.
Validated(data, field, old) ==
    IF field \in RecipeSerializerFields /\ field \in data.present
    THEN data[field] ELSE old

\* RecipeViewSet.perform_create: serializer.save(user=self.request.user)
recipe_perform_create_payload_user(data, user) ==
    [alive |-> TRUE, user |-> data.user, title |-> data.title,
     tags |-> Validated(data, "tags", {}),
     ingredients |-> Validated(data, "ingredients", {}), image |-> NoImage]
recipe_perform_create(data, user) ==
    [alive |-> TRUE, user |-> user, title |-> data.title,
     tags |-> Validated(data, "tags", {}),
     ingredients |-> Validated(data, "ingredients", {}), image |-> NoImage]

\* UpdateModelMixin.perform_update: serializer.save(), the validated fields
\* written on the instance.
perform_update(rec, data, partial) ==
    [alive |-> TRUE,
     user |-> Validated(data, "user", rec.user),
     title |-> Validated(data, "title", rec.title),
     tags |-> Validated(data, "tags", IF partial THEN rec.tags ELSE {}),
     ingredients |-> Validated(data, "ingredients",
                               IF partial THEN rec.ingredients ELSE {}),
     image |-> rec.image]

\* RecipeDetailSerializer: the related rows nested.
RecipeDetailSerializer(rec, id) ==
    [id |-> id, title |-> rec.title,
     tags |-> {RefSerializer(tags, t) : t \in rec.tags},
     ingredients |-> {RefSerializer(ingredients, i) : i \in rec.ingredients}]

\* RecipeImageSerializer.is_valid: the upload decodes as an image.
ImageIsValid(image) == image = ValidImage

\* RecipeViewSet.upload_image on the object found: the response status and
\* the row after it.
upload_image_save_first(rec, image) ==
    [status |-> IF ImageIsValid(image) THEN HTTP_200_OK
                ELSE HTTP_400_BAD_REQUEST,
     rec |-> [rec EXCEPT !.image = image]]
upload_image(rec, image) ==
    IF ImageIsValid(image)
    THEN [status |-> HTTP_200_OK, rec |-> [rec EXCEPT !.image = image]]
    ELSE [status |-> HTTP_400_BAD_REQUEST, rec |-> rec]

\* ------------------------------------------------- request inputs
\* The id lists a query string names: none, one existing id, or all of them.
QueryIdLists(n) ==
    {<<>>} \cup {<<Digits[a]>> : a \in 1..n}
           \cup {[a \in 1..n |-> Digits[a]]}

\* Recipe payloads. A payload names the fields in present, a user field among
\* them; a field it leaves out holds its default. Full payloads (POST, PUT) give every field; the
\* partial ones (PATCH) give one. Two payloads fail validation: a blank
\* title, and a tag id that names no row.
Payload(present, title, ts, is, pu) ==
    [present |-> present \cup {"user"}, title |-> title, tags |-> ts,
     ingredients |-> is, user |-> pu]
AllFields == {"title", "tags", "ingredients"}
InvalidPayloads(pu) ==
    {Payload(AllFields, BlankTitle, {}, {}, pu),
     Payload(AllFields, CHOOSE t \in Titles : TRUE, {Len(tags) + 1}, {}, pu)}
FullPayloads(pu) ==
    {Payload(AllFields, t, ts, is, pu) :
        t \in Titles, ts \in SUBSET (1..Len(tags)),
        is \in SUBSET (1..Len(ingredients))}
    \cup InvalidPayloads(pu)
PartialPayloads(pu) ==
    {Payload({"title"}, t, {}, {}, pu) : t \in Titles}
    \cup {Payload({"tags"}, BlankTitle, ts, {}, pu) :
            ts \in SUBSET (1..Len(tags))}
    \cup {Payload({"ingredients"}, BlankTitle, {}, is, pu) :
            is \in SUBSET (1..Len(ingredients))}
    \cup InvalidPayloads(pu)
RecipePayloads(pu, partial) ==
    IF partial THEN PartialPayloads(pu) ELSE FullPayloads(pu)

Pks == 1..(Len(recipes) + 1)
Requesters == Users \cup {Anonymous}

\* ------------------------------------------------- RecipeViewSet actions
\* ListModelMixin.list of the RecipeViewSet: the responses the unordered
\* query may give.
RecipeListResponse(u, ts, is) ==
    IF ~IsAuthenticated(u) THEN {Unauthorized}
    ELSE {[status |-> HTTP_200_OK,
           data |-> [i \in 1..Len(rows) |->
                       RecipeSerializer(recipes[rows[i]], rows[i])]] :
          rows \in Orderings(RecipeGetQueryset(u, ts, is))}

\* GET /recipe/recipes/
RecipeList ==
    \E u \in Requesters, ts \in QueryIdLists(Len(tags)),
       is \in QueryIdLists(Len(ingredients)) :
        /\ request' = ListRequest("recipes", u, 0, ts, is)
        /\ response' \in RecipeListResponse(u, ts, is)
        /\ UNCHANGED db

\* POST /recipe/recipes/
RecipeCreate ==
    \E u \in Requesters : \E pu \in Users \ {u} :
        /\ request' = CreateRequest("recipes", u, pu)
        /\ IF ~IsAuthenticated(u)
           THEN response' = Unauthorized /\ UNCHANGED db
           ELSE \E data \in RecipePayloads(pu, FALSE) :
                  IF ~RecipeIsValid(data, FALSE)
                  THEN response' = BadRequest /\ UNCHANGED db
                  ELSE /\ Created < MaxObjects
                       /\ recipes' = Append(recipes,
                                            recipe_perform_create(data, u))
                       /\ response' =
                            [status |-> HTTP_201_CREATED,
                             data |-> <<RecipeSerializer(
                                          recipes'[Len(recipes')],
                                          Len(recipes'))>>]
                       /\ UNCHANGED <<tags, ingredients>>

\* GET /recipe/recipes/{pk}/
RecipeRetrieve ==
    \E u \in Requesters, pk \in Pks :
        /\ request' = DetailRequest("retrieve", u, pk)
        /\ response' =
             IF ~IsAuthenticated(u) THEN Unauthorized
             ELSE IF get_object(u, pk) = <<>> THEN NotFound
             ELSE [status |-> HTTP_200_OK,
                   data |-> <<RecipeDetailSerializer(recipes[pk], pk)>>]
        /\ UNCHANGED db

\* PUT (partial = FALSE) and PATCH (partial = TRUE) /recipe/recipes/{pk}/
Update(act, partial) ==
    \E u \in Requesters, pk \in Pks :
        IF ~IsAuthenticated(u)
        THEN /\ request' = DetailRequest(act, u, pk)
             /\ response' = Unauthorized
             /\ UNCHANGED db
        ELSE IF get_object(u, pk) = <<>>
        THEN /\ request' = DetailRequest(act, u, pk)
             /\ response' = NotFound
             /\ UNCHANGED db
        ELSE \E pu \in Users \ {u} : \E data \in RecipePayloads(pu, partial) :
             /\ request' = [DetailRequest(act, u, pk) EXCEPT !.payload_user = pu]
             /\ IF ~RecipeIsValid(data, partial)
                THEN response' = BadRequest /\ UNCHANGED db
                ELSE /\ recipes' =
                          [recipes EXCEPT
                             ![pk] = perform_update(recipes[pk], data, partial)]
                     /\ response' =
                          [status |-> HTTP_200_OK,
                           data |-> <<RecipeSerializer(recipes'[pk], pk)>>]
                     /\ UNCHANGED <<tags, ingredients>>

RecipeUpdate == Update("update", FALSE)
RecipePartialUpdate == Update("partial_update", TRUE)

\* DELETE /recipe/recipes/{pk}/
RecipeDestroy ==
    \E u \in Requesters, pk \in Pks :
        /\ request' = DetailRequest("destroy", u, pk)
        /\ IF ~IsAuthenticated(u)
           THEN response' = Unauthorized /\ UNCHANGED db
           ELSE IF get_object(u, pk) = <<>>
           THEN response' = NotFound /\ UNCHANGED db
           ELSE /\ recipes' = [recipes EXCEPT ![pk] = Deleted]
                /\ response' = [status |-> 204, data |-> <<>>]
                /\ UNCHANGED <<tags, ingredients>>

\* POST /recipe/recipes/{pk}/upload-image/
RecipeUploadImage ==
    \E u \in Requesters, pk \in Pks :
        IF ~IsAuthenticated(u)
        THEN /\ request' = DetailRequest("upload_image", u, pk)
             /\ response' = Unauthorized
             /\ UNCHANGED db
        ELSE IF get_object(u, pk) = <<>>
        THEN /\ request' = DetailRequest("upload_image", u, pk)
             /\ response' = NotFound
             /\ UNCHANGED db
        ELSE \E image \in {ValidImage, NotImage} :
             LET out == upload_image(recipes[pk], image) IN
             /\ request' = [DetailRequest("upload_image", u, pk)
                              EXCEPT !.image = image]
             /\ recipes' = [recipes EXCEPT ![pk] = out.rec]
             /\ response' =
                  [status |-> out.status,
                   data |-> IF out.status = HTTP_200_OK
                            THEN <<RecipeImageSerializer(out.rec, pk)>>
                            ELSE <<>>]
             /\ UNCHANGED <<tags, ingredients>>

\* ------------------------------------------------- specification
Init ==
    /\ tags = <<>>
    /\ ingredients = <<>>
    /\ recipes = <<>>
    /\ request = NoRequest
    /\ response = NoResponse

\* The response leaves the server: the request is over, and the next one
\* is read. Requests are handled one at a time.
Respond ==
    /\ request # NoRequest
    /\ request' = NoRequest
    /\ response' = NoResponse
    /\ UNCHANGED db

Idle == request = NoRequest

Next ==
    \/ Idle /\ TagList
    \/ Idle /\ TagCreate
    \/ Idle /\ IngredientList
    \/ Idle /\ IngredientCreate
    \/ Idle /\ RecipeList
    \/ Idle /\ RecipeCreate
    \/ Idle /\ RecipeRetrieve
    \/ Idle /\ RecipeUpdate
    \/ Idle /\ RecipePartialUpdate
    \/ Idle /\ RecipeDestroy
    \/ Idle /\ RecipeUploadImage
    \/ Respond

Spec == Init /\ [][Next]_vars

\* ------------------------------------------------- properties
OtherUser(u) == CHOOSE v \in Users : v # u
Table(view) == IF view = "tags" THEN tags
               ELSE IF view = "ingredients" THEN ingredients ELSE recipes
\* The ids of the records of the response, in the order returned.
DataIds == [i \in 1..Len(response.data) |-> response.data[i].id]
NoDuplicates(ids) == \A i, j \in 1..Len(ids) : ids[i] = ids[j] => i = j
ListOk(views) ==
    /\ request.view \in views
    /\ request.action = "list"
    /\ response.status = HTTP_200_OK
\* The ids a query parameter names.
ParamIds(param) == {n \in 1..Len(Digits) : \E i \in 1..Len(param) : param[i] = Digits[n]}
\* The rows of a tag or ingredient table that some recipe references.
Assigned(view) ==
    {t \in 1..Len(Table(view)) : \E r \in AliveRecipes : t \in recipes[r][view]}
Owned(view, u) ==
    {i \in 1..Len(Table(view)) :
        /\ Table(view)[i].user = u
        /\ view = "recipes" => recipes[i].alive}

\* C1: every record an authenticated user's list request returns (tags,
\* ingredients or recipes, with or without assigned_only, tags or ingredients
\* parameters) is owned by that user.
C1_ListOnlyOwnRecords ==
    ListOk({"tags", "ingredients", "recipes"}) =>
        \A i \in 1..Len(DataIds) : Table(request.view)[DataIds[i]].user = request.user

\* An assigned_only tag list that returned a record while a tag of the other
\* user is referenced by a recipe too.
C1_Witness ==
    /\ ListOk({"tags"})
    /\ request.assigned_only = 1
    /\ Len(response.data) >= 1
    /\ \E t \in Assigned("tags") : tags[t].user = OtherUser(request.user)

\* C2: a record created through a successful create request (tag, ingredient
\* or recipe) is owned by the authenticated sender, whatever user the payload
\* names.
C2_CreatedOwnerIsSender ==
    (request.action = "create" /\ response.status = HTTP_201_CREATED) =>
        /\ Len(response.data) = 1
        /\ DataIds[1] = Len(Table(request.view))
        /\ Table(request.view)[DataIds[1]].user = request.user

\* A recipe created from a payload that names the other user as the owner.
C2_Witness ==
    /\ request.view = "recipes"
    /\ request.action = "create"
    /\ response.status = HTTP_201_CREATED
    /\ request.payload_user = OtherUser(request.user)

\* C3: a request without valid authentication to a list or create endpoint
\* returns 401 and no records, and leaves the three tables unchanged.
C3_UnauthenticatedRejected ==
    [][(request'.user = Anonymous /\ request'.action \in {"list", "create"}) =>
        /\ response'.status = HTTP_401_UNAUTHORIZED
        /\ response'.data = <<>>
        /\ UNCHANGED db]_vars

\* An unauthenticated create answered 401 with rows already stored.
C3_Witness ==
    /\ request.user = Anonymous
    /\ request.action = "create"
    /\ response.status = HTTP_401_UNAUTHORIZED
    /\ Created > 0

\* C4: a tag or ingredient list with assigned_only=1 returns exactly the
\* caller's rows that at least one recipe references, each once.
C4_AssignedOnlyExactOnce ==
    (ListOk({"tags", "ingredients"}) /\ request.assigned_only = 1) =>
        /\ Range(DataIds) = Owned(request.view, request.user)
                              \cap Assigned(request.view)
        /\ NoDuplicates(DataIds)

\* An assigned_only list whose one record is referenced by two recipes.
C4_Witness ==
    /\ ListOk({"tags", "ingredients"})
    /\ request.assigned_only = 1
    /\ Len(response.data) = 1
    /\ Cardinality({r \in AliveRecipes :
                      DataIds[1] \in recipes[r][request.view]}) = 2

\* C5 as stated: a recipe list with a tags (respectively ingredients)
\* parameter returns a caller-owned recipe if and only if the recipe has a tag
\* (respectively an ingredient) whose id is in the list.
C5_AsStated ==
    ListOk({"recipes"}) =>
        /\ request.tags # <<>> =>
             Range(DataIds) =
               {r \in Owned("recipes", request.user) :
                  recipes[r].tags \cap ParamIds(request.tags) # {}}
        /\ request.ingredients # <<>> =>
             Range(DataIds) =
               {r \in Owned("recipes", request.user) :
                  recipes[r].ingredients \cap ParamIds(request.ingredients) # {}}

\* C5, amended: a recipe list returns a caller-owned recipe if and only if,
\* for each of the tags and ingredients parameters the request gives, the
\* recipe has a tag (respectively an ingredient) whose id is in that list: OR
\* across the ids of a list, AND between the two parameters.
C5_FilterAnyIdEachParam ==
    (ListOk({"recipes"}) /\ (request.tags # <<>> \/ request.ingredients # <<>>)) =>
        Range(DataIds) =
          {r \in Owned("recipes", request.user) :
             /\ request.tags # <<>> =>
                  recipes[r].tags \cap ParamIds(request.tags) # {}
             /\ request.ingredients # <<>> =>
                  recipes[r].ingredients \cap ParamIds(request.ingredients) # {}}

\* A list filtered by two tag ids that returns a recipe with only one of them,
\* while another recipe of the caller has neither and is left out.
C5_Witness ==
    /\ ListOk({"recipes"})
    /\ Len(request.tags) = 2
    /\ request.ingredients = <<>>
    /\ \E i \in 1..Len(DataIds) :
         Cardinality(recipes[DataIds[i]].tags \cap ParamIds(request.tags)) = 1

DetailActions == {"retrieve", "update", "partial_update", "destroy", "upload_image"}

\* C6: a retrieve, update, partial_update, delete or upload_image request by
\* an authenticated user on a recipe id that does not exist or belongs to
\* another user returns 404 and leaves every stored recipe unchanged.
C6_ForeignOrMissingIs404 ==
    [][(/\ request'.view = "recipes"
        /\ request'.action \in DetailActions
        /\ request'.user \in Users
        /\ \/ request'.pk \notin AliveRecipes
           \/ recipes[request'.pk].user # request'.user) =>
        /\ response'.status = 404
        /\ recipes' = recipes]_vars

\* An update of another user's existing recipe, answered 404.
C6_Witness ==
    /\ request.action \in {"update", "destroy"}
    /\ response.status = 404
    /\ request.pk \in AliveRecipes
    /\ recipes[request.pk].user = OtherUser(request.user)

\* C7: no request changes the owner of an existing recipe.
C7_OwnerFixed ==
    [][\A r \in 1..Len(recipes) :
         (recipes[r].alive /\ recipes'[r].alive) =>
            recipes'[r].user = recipes[r].user]_vars

\* A successful update whose payload names the other user as the owner.
C7_Witness ==
    /\ request.action \in {"update", "partial_update"}
    /\ response.status = HTTP_200_OK
    /\ request.payload_user = OtherUser(request.user)
    /\ recipes[request.pk].user = request.user

\* C8: upload_image on a recipe the caller owns: an invalid image returns 400
\* and leaves the stored image unchanged; a valid image returns 200 with the
\* serialized record containing the image, and the image is stored.
C8_UploadImage ==
    [][(/\ request'.action = "upload_image"
        /\ request'.user \in Users
        /\ request'.pk \in AliveRecipes
        /\ recipes[request'.pk].user = request'.user) =>
        IF request'.image = ValidImage
        THEN /\ response'.status = HTTP_200_OK
             /\ response'.data = <<[id |-> request'.pk, image |-> ValidImage]>>
             /\ recipes'[request'.pk].image = ValidImage
        ELSE /\ response'.status = HTTP_400_BAD_REQUEST
             /\ recipes'[request'.pk].image = recipes[request'.pk].image]_vars

\* An invalid upload answered 400 on a recipe that keeps the image a valid
\* upload stored before.
C8_Witness ==
    /\ request.action = "upload_image"
    /\ request.image = NotImage
    /\ response.status = HTTP_400_BAD_REQUEST
    /\ recipes[request.pk].image = ValidImage

\* C9: a tag or ingredient list returns all of the caller's rows, each once,
\* in descending order of name.
C9_ListAllByNameDesc ==
    (ListOk({"tags", "ingredients"}) /\ request.assigned_only = 0) =>
        /\ Range(DataIds) = Owned(request.view, request.user)
        /\ NoDuplicates(DataIds)
        /\ \A i, j \in 1..Len(response.data) :
             i < j => response.data[i].name >= response.data[j].name

\* A list of two rows where the row created first has the smaller name, so
\* the order returned is not the order of creation.
C9_Witness ==
    /\ ListOk({"tags", "ingredients"})
    /\ request.assigned_only = 0
    /\ Len(response.data) = 2
    /\ response.data[1].name > response.data[2].name
    /\ response.data[1].id > response.data[2].id

\* C10: an unfiltered recipe list returns all of the caller's recipes in
\* descending order of id.
C10_RecipesByIdDesc ==
    (ListOk({"recipes"}) /\ request.tags = <<>> /\ request.ingredients = <<>>) =>
        /\ Range(DataIds) = Owned("recipes", request.user)
        /\ \A i, j \in 1..Len(DataIds) : i < j => DataIds[i] > DataIds[j]

\* What the list requests of user u return in the current state: for every
\* list endpoint and every query parameter, the responses the request may get.
ListView(u) ==
    [tags |-> [a \in AssignedOnlyValues |->
                 BaseListResponse(tags, "tags", u, a)],
     ingredients |-> [a \in AssignedOnlyValues |->
                        BaseListResponse(ingredients, "ingredients", u, a)],
     recipes |-> [p \in QueryIdLists(MaxObjects) \X QueryIdLists(MaxObjects) |->
                    RecipeListResponse(u, p[1], p[2])]]

\* C11: what an authenticated user's list requests return depends only on
\* that user's own requests: no request sent by anybody else changes the
\* response to any list request of the user (tags and ingredients with or
\* without assigned_only, recipes with or without filters). A step that
\* breaks this gives two runs with the same requests of the user, one with
\* and one without the other sender's request, whose list responses differ.
C11_ListsIndependentOfOthers ==
    [][\A u \in Users :
         request'.user # u => ListView(u)' = ListView(u)]_vars

\* C12: a recipe list filtered by tags and/or ingredients holds each matching
\* recipe exactly once, also when the recipe has several tags or ingredients
\* whose ids are in the lists given.
C12_FilteredRecipesOnce ==
    (ListOk({"recipes"}) /\ (request.tags # <<>> \/ request.ingredients # <<>>)) =>
        NoDuplicates(DataIds)

====
